---------------------------- MODULE Spec2Model ----------------------------
(***************************************************************************)
(* Ingestion-and-buffering core of the drone risk monitoring pipeline:     *)
(*   - DroneHTTPClient   (server_model/DronHTTPClient.py)    PollingClient *)
(*   - DroneSimService   (productive_consumption/DroneSimService.py)       *)
(*   - DataBuffer        (websocket/DataBuffer.py)          WindowedBuffer *)
(*   - DroneWebSocketClient (websocket/DroneWebSocketClient.py)            *)
(* Each component has its own next-state relation and specification; the   *)
(* variables of the other components keep their initial values.            *)
(***************************************************************************)
EXTENDS Integers, Sequences, FiniteSets, TLC

VARIABLES
    http,      \* DroneHTTPClient fields: is_running, failed_count, collected_data
    http_h,    \* history of the polling client: requests issued, last tick, ...
    sim,       \* DroneSimService fields: is_running, current_time, data_queue, sim_thread
    sim_pc,    \* the line each simulation loop thread is at
    sim_h,     \* the caller of start_service/stop_service, and history
    rcv,       \* DroneDataReceiver: collected_data, and what its last tick found
    now,       \* the wall clock (datetime.now(), time.time()), in ticks
    objs,      \* the DroneData objects created so far; an object's id is its index
    buf,       \* DataBuffer fields: lock, latest_data, collected_data, last_receive_time
    wr,        \* threads calling update_data: position and the object passed
    rd,        \* threads calling the get_* operations: position and what was returned
    buf_h,     \* history of the buffer: the update that completed last
    ws,        \* DroneWebSocketClient fields: is_running, reconnect_flag, heartbeat_running, ws
    conn,      \* the WebSocketApp objects created so far and the state of their connection
    cl,        \* the client thread (start_client and the callbacks run_forever dispatches)
    snd,       \* the send_loop thread started for each connection
    hb,        \* the heartbeat_loop thread started for each connection
    wire,      \* the kinds of message sent on each connection
    ws_h,      \* the caller of start/stop, and history of the streaming client
    rk,        \* the last risk computation: the function, its inputs, its result
    calc       \* a DroneSimulation with its DroneRiskCalculator, or a DroneSimService

httpVars == <<http, http_h>>
simVars == <<sim, sim_pc, sim_h, rcv>>
bufVars == <<now, objs, buf, wr, rd, buf_h>>
wsVars == <<ws, conn, cl, snd, hb, wire, ws_h>>
riskVars == <<rk, calc>>
vars == <<http, http_h, sim, sim_pc, sim_h, rcv, now, objs, buf, wr, rd, buf_h,
          ws, conn, cl, snd, hb, wire, ws_h, rk, calc>>

(***************************************************************************)
(* DroneHTTPClient                                                         *)
(***************************************************************************)

\* self.max_failed = 3
max_failed == 3

\* Bounds of the polling model.
MaxRequests == 6
MaxFailCount == 5
MaxCollected == 2
MaxTimestamp == 1

\* What the endpoint can answer to one GET /get_drone_data:
\*   ok200         status 200, JSON object with all five fields
\*   missing_field status 200, JSON object lacking one of the five fields
\*   non200        any other status code
\*   transport     requests.exceptions.RequestException (timeout, refused, ...)
Responses ==
    {[kind |-> "ok200", timestamp |-> t, is_valid |-> v] :
        t \in 0..MaxTimestamp, v \in BOOLEAN}
    \cup {[kind |-> k, timestamp |-> 0, is_valid |-> FALSE] :
        k \in {"missing_field", "non200", "transport"}}

\* The invalid observation the client synthesizes on a handled failure.
InvalidData == [timestamp |-> 0, is_valid |-> FALSE]

\* _request_drone_data: the DroneData returned, or the exception that escapes.
\* data["..."] on a body lacking the field raises KeyError, which the
\* except clause (requests.exceptions.RequestException) does not catch.
RequestDroneData(resp) ==
    CASE resp.kind = "ok200" ->
            [raised |-> FALSE,
             data |-> [timestamp |-> resp.timestamp, is_valid |-> resp.is_valid]]
      [] resp.kind = "missing_field" ->
            [raised |-> TRUE, data |-> InvalidData]
      [] OTHER ->
            [raised |-> FALSE, data |-> InvalidData]

\* A request that did not deliver a well-formed 200 body.
FailedRequest(resp) == resp.kind # "ok200"

HttpInit ==
    /\ http = [is_running |-> FALSE, failed_count |-> 0, collected_data |-> <<>>]
    /\ http_h = [requests |-> 0, streak |-> 0, tripped |-> FALSE,
                 req_after_trip |-> FALSE, last |-> "none", accepted |-> <<>>]

\* start_client: self.is_running = True (then the animation calls _update_plot).
StartClient ==
    /\ http' = [http EXCEPT !.is_running = TRUE]
    /\ http_h' = [http_h EXCEPT !.last = "start"]
    /\ UNCHANGED <<simVars, riskVars, bufVars, wsVars>>

\* stop_client: self.is_running = False.
StopClient ==
    /\ http' = [http EXCEPT !.is_running = FALSE]
    /\ http_h' = [http_h EXCEPT !.last = "stop"]
    /\ UNCHANGED <<simVars, riskVars, bufVars, wsVars>>

\* Step 3 of _update_plot: the termination check.
BreakerTrips(count) == count >= max_failed

\* A tick that stores whatever the request returned.
AfterRequest_StoreAll(h, data) ==
    LET counted ==
            IF data.is_valid
            THEN [h EXCEPT !.failed_count = 0,
                           !.collected_data = Append(@, data)]
            ELSE [h EXCEPT !.failed_count = @ + 1,
                           !.collected_data = Append(@, data)]
    IN  IF BreakerTrips(counted.failed_count)
        THEN [counted EXCEPT !.is_running = FALSE]
        ELSE counted

\* The client fields after the request of one tick returned `data`.
AfterRequest(h, data) ==
    LET counted ==
            IF data.is_valid
            THEN [h EXCEPT !.failed_count = 0,
                           !.collected_data = Append(@, data)]
            ELSE [h EXCEPT !.failed_count = @ + 1]
    IN  IF BreakerTrips(counted.failed_count)
        THEN [counted EXCEPT !.is_running = FALSE]
        ELSE counted

\* _update_plot: one tick of the animation timer.
UpdatePlot(resp) ==
    IF ~http.is_running
    THEN /\ http_h' = [http_h EXCEPT !.last = "skipped"]
         /\ UNCHANGED <<http, simVars, riskVars, bufVars, wsVars>>
    ELSE LET r == RequestDroneData(resp)
             next == IF r.raised THEN http ELSE AfterRequest(http, r.data)
         IN  /\ http_h.requests < MaxRequests
             /\ http.failed_count < MaxFailCount
             /\ r.data.is_valid => Len(http.collected_data) < MaxCollected
             /\ UNCHANGED <<simVars, riskVars, bufVars, wsVars>>
             /\ http' = next
             /\ http_h' =
                  [requests |-> http_h.requests + 1,
                   streak |-> IF FailedRequest(resp) THEN http_h.streak + 1 ELSE 0,
                   tripped |-> http_h.tripped
                               \/ (~r.raised /\ ~next.is_running),
                   req_after_trip |-> http_h.req_after_trip \/ http_h.tripped,
                   accepted |-> IF ~r.raised /\ r.data.is_valid
                                THEN Append(http_h.accepted, r.data)
                                ELSE http_h.accepted,
                   last |-> IF r.raised THEN "raised"
                            ELSE IF r.data.is_valid THEN "ok" ELSE "failed"]

HttpNext ==
    \/ StartClient
    \/ StopClient
    \/ \E resp \in Responses : UpdatePlot(resp)

(***************************************************************************)
(* DroneSimService                                                         *)
(***************************************************************************)

\* total_time (constructor parameter), in ticks of the 1 s loop.
total_time == 1
\* How many loop threads one service instance may create in a run.
MaxSimThreads == 2

SimThreads == 1..MaxSimThreads

\* The end-of-stream marker put on data_queue (None in the source).
Sentinel == -1

SimInit ==
    /\ sim = [is_running |-> FALSE, current_time |-> 0, data_queue |-> <<>>,
              sim_thread |-> 0, total_time |-> total_time]
    /\ sim_pc = [t \in SimThreads |-> "none"]
    /\ sim_h = [main_pc |-> "idle", last_call |-> "none", put_after_stop |-> FALSE,
                producers |-> <<>>, stop_signalled |-> FALSE, obs_since_stop |-> 0,
                enqueued |-> <<>>, raised |-> FALSE]
    /\ rcv = [collected_data |-> <<>>, last |-> "none", data_after_empty |-> FALSE]

\* threading.Thread.is_alive(): started and run() not yet finished.
IsAlive(t) == t \in SimThreads /\ sim_pc[t] \notin {"none", "dead"}

\* The caller is between two calls and the last call to return was stop_service.
StopReturned == sim_h.main_pc = "idle" /\ sim_h.last_call = "stop"

\* The observations put since the last stop signal are counted up to here.
MaxCounted == 2

\* How many elements are put on data_queue in one run of the model.
MaxQueue == 3

\* A put on data_queue by the loop thread t. The history keeps which thread
\* put each element and how many observations were put since is_running was
\* last cleared by stop_service.
QueuePut(t, item) ==
    /\ Len(sim_h.enqueued) < MaxQueue
    /\ sim' = [sim EXCEPT !.data_queue = Append(@, item)]
    /\ sim_h' = [sim_h EXCEPT
                   !.put_after_stop = @ \/ StopReturned,
                   !.producers = Append(@, t),
                   !.enqueued = Append(@, item),
                   !.obs_since_stop =
                       IF sim_h.stop_signalled /\ item # Sentinel /\ @ < MaxCounted
                       THEN @ + 1 ELSE @]

\* DroneSimService(total_time=duration) in place of the service of
\* total_time seconds: __init__ stores the duration as it is given.
NewSimService(duration) ==
    /\ sim_h.main_pc = "idle"
    /\ sim_h.last_call = "none"
    /\ \A t \in SimThreads : sim_pc[t] = "none"
    /\ sim' = [sim EXCEPT !.total_time = duration]
    /\ sim_h' = [sim_h EXCEPT !.last_call = "__init__"]
    /\ UNCHANGED <<sim_pc, rcv, httpVars, riskVars, bufVars, wsVars>>

\* start_service: if not self.is_running, create and start a loop thread.
StartService ==
    /\ sim_h.main_pc = "idle"
    /\ IF ~sim.is_running
       THEN \E t \in SimThreads :
              /\ sim_pc[t] = "none"
              /\ \A u \in SimThreads : u < t => sim_pc[u] # "none"
              /\ sim' = [sim EXCEPT !.sim_thread = t]
              /\ sim_pc' = [sim_pc EXCEPT ![t] = "l79"]
              /\ sim_h' = [sim_h EXCEPT !.last_call = "start",
                                        !.stop_signalled = FALSE,
                                        !.obs_since_stop = 0]
       ELSE /\ sim_h' = [sim_h EXCEPT !.last_call = "start"]
            /\ UNCHANGED <<sim, sim_pc>>
    /\ UNCHANGED <<rcv, httpVars, riskVars, bufVars, wsVars>>

\* stop_service, line 109: self.is_running = False; then the join is entered.
StopServiceSignal ==
    /\ sim_h.main_pc = "idle"
    /\ sim' = [sim EXCEPT !.is_running = FALSE]
    /\ sim_h' = [sim_h EXCEPT !.main_pc = "join",
                             !.stop_signalled = \E t \in SimThreads : IsAlive(t),
                             !.obs_since_stop = 0]
    /\ UNCHANGED <<sim_pc, rcv, httpVars, riskVars, bufVars, wsVars>>

\* The thread stop_service waits for: self.sim_thread, the one created last.
\* (sim_thread is 0 while it is None.)
JoinDone == ~IsAlive(sim.sim_thread)

\* stop_service, lines 110-112: join self.sim_thread if alive, then return.
StopServiceReturn ==
    /\ sim_h.main_pc = "join"
    /\ JoinDone
    /\ sim_h' = [sim_h EXCEPT !.main_pc = "idle", !.last_call = "stop"]
    /\ UNCHANGED <<sim, sim_pc, rcv, httpVars, riskVars, bufVars, wsVars>>

\* _run_sim_loop line 79: self.current_time = 0.0
LoopResetTime(t) ==
    /\ sim_pc[t] = "l79"
    /\ sim' = [sim EXCEPT !.current_time = 0]
    /\ sim_pc' = [sim_pc EXCEPT ![t] = "l80"]
    /\ UNCHANGED <<sim_h, rcv, httpVars, riskVars, bufVars, wsVars>>

\* line 80: self.is_running = True
LoopSetRunning(t) ==
    /\ sim_pc[t] = "l80"
    /\ sim' = [sim EXCEPT !.is_running = TRUE]
    /\ sim_pc' = [sim_pc EXCEPT ![t] = "l82"]
    /\ UNCHANGED <<sim_h, rcv, httpVars, riskVars, bufVars, wsVars>>

\* line 82: while self.is_running and self.current_time <= self.total_time
LoopCondition == sim.is_running /\ sim.current_time <= sim.total_time

LoopCheck(t) ==
    /\ sim_pc[t] = "l82"
    /\ sim_pc' = [sim_pc EXCEPT ![t] = IF LoopCondition THEN "l84" ELSE "l96"]
    /\ UNCHANGED <<sim, sim_h, rcv, httpVars, riskVars, bufVars, wsVars>>

\* _simulate_single_data lines 43-48 divides by self.total_time / 2.
SimulateRaises == sim.total_time = 0

\* lines 84-86: simulate the current time point and put it on the queue.
\* An exception that _simulate_single_data raises ends the thread there.
LoopPut(t) ==
    /\ sim_pc[t] = "l84"
    /\ IF SimulateRaises
       THEN /\ sim_pc' = [sim_pc EXCEPT ![t] = "dead"]
            /\ sim_h' = [sim_h EXCEPT !.raised = TRUE]
            /\ UNCHANGED sim
       ELSE /\ QueuePut(t, sim.current_time)
            /\ sim_pc' = [sim_pc EXCEPT ![t] = "l93"]
    /\ UNCHANGED <<rcv, httpVars, riskVars, bufVars, wsVars>>

\* lines 91-93: time.sleep(1); self.current_time += 1.0
LoopAdvance(t) ==
    /\ sim_pc[t] = "l93"
    /\ sim' = [sim EXCEPT !.current_time = @ + 1]
    /\ sim_pc' = [sim_pc EXCEPT ![t] = "l82"]
    /\ UNCHANGED <<sim_h, rcv, httpVars, riskVars, bufVars, wsVars>>

\* The loop ending without the put of line 96.
LoopSentinel_NoPut(t) ==
    /\ sim_pc[t] = "l96"
    /\ sim_pc' = [sim_pc EXCEPT ![t] = "l97"]
    /\ UNCHANGED <<sim, sim_h, rcv, httpVars, riskVars, bufVars, wsVars>>

\* line 96: self.data_queue.put(None)
LoopSentinel(t) ==
    /\ sim_pc[t] = "l96"
    /\ QueuePut(t, Sentinel)
    /\ sim_pc' = [sim_pc EXCEPT ![t] = "l97"]
    /\ UNCHANGED <<rcv, httpVars, riskVars, bufVars, wsVars>>

\* line 97: self.is_running = False; the thread ends.
LoopExit(t) ==
    /\ sim_pc[t] = "l97"
    /\ sim' = [sim EXCEPT !.is_running = FALSE]
    /\ sim_pc' = [sim_pc EXCEPT ![t] = "dead"]
    /\ UNCHANGED <<sim_h, rcv, httpVars, riskVars, bufVars, wsVars>>

SimNext ==
    \/ StartService
    \/ StopServiceSignal
    \/ StopServiceReturn
    \/ \E t \in SimThreads :
         \/ LoopResetTime(t)
         \/ LoopSetRunning(t)
         \/ LoopCheck(t)
         \/ LoopPut(t)
         \/ LoopAdvance(t)
         \/ LoopSentinel(t)
         \/ LoopExit(t)

\* A service constructed with a duration of its own and started, its
\* stop_service never called.
RunNext ==
    \/ \E duration \in 0..total_time : NewSimService(duration)
    \/ StartService
    \/ \E t \in SimThreads :
         \/ LoopResetTime(t)
         \/ LoopSetRunning(t)
         \/ LoopCheck(t)
         \/ LoopPut(t)
         \/ LoopAdvance(t)
         \/ LoopSentinel(t)
         \/ LoopExit(t)

(***************************************************************************)
(* DroneDataReceiver                                                       *)
(***************************************************************************)

\* The receiver appending whatever it took from the queue.
Collect_All(collected, item) == Append(collected, item)

\* _update_plot lines 94-99: None ends the tick, anything else is appended
\* to collected_data.
Collect(collected, item) ==
    IF item = Sentinel THEN collected ELSE Append(collected, item)

\* DroneDataReceiver._update_plot: one tick of the animation timer.
\* get_nowait raises queue.Empty on an empty queue (the tick does nothing),
\* otherwise it removes the head of the queue.
ReceiverUpdatePlot ==
    /\ IF sim.data_queue = <<>>
       THEN /\ rcv' = [rcv EXCEPT !.last = "empty"]
            /\ sim' = sim
       ELSE LET item == Head(sim.data_queue) IN
            /\ sim' = [sim EXCEPT !.data_queue = Tail(@)]
            /\ rcv' = [collected_data |-> Collect(rcv.collected_data, item),
                       last |-> IF item = Sentinel THEN "sentinel" ELSE "data",
                       data_after_empty |->
                           rcv.data_after_empty
                           \/ (item # Sentinel /\ rcv.last = "empty")]
    /\ UNCHANGED <<sim_pc, sim_h, httpVars, riskVars, bufVars, wsVars>>

\* The simulation service together with its receiver.
QueueNext ==
    \/ StartService
    \/ \E t \in SimThreads :
         \/ LoopResetTime(t)
         \/ LoopSetRunning(t)
         \/ LoopCheck(t)
         \/ LoopPut(t)
         \/ LoopAdvance(t)
         \/ LoopSentinel(t)
         \/ LoopExit(t)
    \/ ReceiverUpdatePlot

(***************************************************************************)
(* DataBuffer and DroneData                                                *)
(***************************************************************************)

\* Constant.DISPLAY_WINDOW, in clock ticks.
DISPLAY_WINDOW == 2
\* The clock stops at MaxTime. At most MaxObs DroneData objects are created
\* when the operations are called one after another, at most MaxConcObs when
\* writers and readers run concurrently.
MaxTime == 3
MaxObs == 3
MaxConcObs == 2

Writers == {"w1", "w2"}
Readers == {"r1"}

\* self.latest_data is 0 while it is None, self.last_receive_time is -1
\* while it is None.
NoData == 0
NoTime == -1

\* A list a caller owns alone (the result of list.copy()).
OwnList == -1

\* Time passes.
Tick ==
    /\ now < MaxTime
    /\ now' = now + 1
    /\ UNCHANGED <<objs, buf, wr, rd, buf_h, httpVars, riskVars, simVars, wsVars>>

\* DroneData(sys_time, ..., is_valid): a new object.
NewDroneData(t, v) == [sys_time |-> t, is_valid |-> v]

\* update_data and the get_* operations without the lock.
LockFree_NoLock(b) == TRUE

\* with self.lock: the lock can be taken.
LockFree(b) == b.lock = "free"

\* latest_data kept only for valid observations.
SetLatest_OnlyValid(b, d) ==
    IF objs[d].is_valid THEN [b EXCEPT !.latest_data = d] ELSE b

\* update_data line 19: self.latest_data = drone_data
SetLatest(b, d) == [b EXCEPT !.latest_data = d]

\* An eviction that also drops the elements stamped exactly at the cutoff.
Evict_Strict(b, t) ==
    [b EXCEPT !.collected_data =
                  SelectSeq(@, LAMBDA i : objs[i].sys_time > t - DISPLAY_WINDOW),
              !.list_id = @ + 1]

\* update_data lines 20-21: cutoff_time = now - DISPLAY_WINDOW; collected_data
\* is rebound to a new list of the elements with sys_time >= cutoff_time.
Evict(b, t) ==
    [b EXCEPT !.collected_data =
                  SelectSeq(@, LAMBDA i : objs[i].sys_time >= t - DISPLAY_WINDOW),
              !.list_id = @ + 1]

\* update_data line 22: self.collected_data.append(drone_data)
AppendData(b, d) == [b EXCEPT !.collected_data = Append(@, d)]

\* update_data line 23: self.last_receive_time = time.time()
StampReceive(b, t) == [b EXCEPT !.last_receive_time = t]

\* The whole of update_data, run at time t without interruption.
UpdateData(b, d, t) == StampReceive(AppendData(Evict(SetLatest(b, d), t), d), t)

\* get_latest_data: return self.latest_data
GetLatestData(b) == b.latest_data

\* get_collected_data returning self.collected_data itself.
GetCollectedData_NoCopy(b) == [items |-> b.collected_data, list_id |-> b.list_id]

\* get_collected_data: return self.collected_data.copy()
GetCollectedData(b) == [items |-> b.collected_data, list_id |-> OwnList]

\* get_last_receive_info without the test of line 35.
GetLastReceiveInfo_NoSentinel(b, t) ==
    [never |-> FALSE, elapsed |-> t - b.last_receive_time]

\* get_last_receive_info: the "never received" pair, or the elapsed time.
GetLastReceiveInfo(b, t) ==
    IF b.last_receive_time = NoTime
    THEN [never |-> TRUE, elapsed |-> 0]
    ELSE [never |-> FALSE, elapsed |-> t - b.last_receive_time]

\* What a reader holds before its first call and of the operations it did
\* not call last.
NoResult ==
    [latest |-> NoData, hist |-> [items |-> <<>>, list_id |-> OwnList],
     info |-> [never |-> TRUE, elapsed |-> 0], mutated |-> FALSE]

BufInit ==
    /\ now = 0
    /\ objs = <<>>
    /\ buf = [lock |-> "free", latest_data |-> NoData, collected_data |-> <<>>,
              list_id |-> 0, last_receive_time |-> NoTime]
    /\ wr = [w \in Writers |-> [pc |-> "idle", d |-> NoData]]
    /\ rd = [r \in Readers |-> [pc |-> "idle", op |-> "none", ret |-> NoResult]]
    /\ buf_h = [last_completed |-> NoData, written |-> <<>>]

\* A caller builds a DroneData stamped with the current time (on_message
\* lines 110-116) and is about to call update_data.
WriterCreate(w, v, max) ==
    /\ wr[w].pc = "idle"
    /\ Len(objs) < max
    /\ objs' = Append(objs, NewDroneData(now, v))
    /\ wr' = [wr EXCEPT ![w] = [pc |-> "call", d |-> Len(objs) + 1]]
    /\ UNCHANGED <<now, buf, rd, buf_h, httpVars, riskVars, simVars, wsVars>>

\* update_data line 18: with self.lock
WriterAcquire(w) ==
    /\ wr[w].pc = "call"
    /\ LockFree(buf)
    /\ buf' = [buf EXCEPT !.lock = w]
    /\ wr' = [wr EXCEPT ![w].pc = "l19"]
    /\ UNCHANGED <<now, objs, rd, buf_h, httpVars, riskVars, simVars, wsVars>>

WriterSetLatest(w) ==
    /\ wr[w].pc = "l19"
    /\ buf' = SetLatest(buf, wr[w].d)
    /\ wr' = [wr EXCEPT ![w].pc = "l20"]
    /\ UNCHANGED <<now, objs, rd, buf_h, httpVars, riskVars, simVars, wsVars>>

WriterEvict(w) ==
    /\ wr[w].pc = "l20"
    /\ buf' = Evict(buf, now)
    /\ wr' = [wr EXCEPT ![w].pc = "l22"]
    /\ UNCHANGED <<now, objs, rd, buf_h, httpVars, riskVars, simVars, wsVars>>

WriterAppend(w) ==
    /\ wr[w].pc = "l22"
    /\ buf' = AppendData(buf, wr[w].d)
    /\ wr' = [wr EXCEPT ![w].pc = "l23"]
    /\ UNCHANGED <<now, objs, rd, buf_h, httpVars, riskVars, simVars, wsVars>>

\* line 23, then the lock is released and update_data returns.
WriterStamp(w) ==
    /\ wr[w].pc = "l23"
    /\ buf' = [StampReceive(buf, now) EXCEPT !.lock = "free"]
    /\ wr' = [wr EXCEPT ![w] = [pc |-> "idle", d |-> NoData]]
    /\ buf_h' = [buf_h EXCEPT !.last_completed = wr[w].d,
                              !.written = Append(@, wr[w].d)]
    /\ UNCHANGED <<now, objs, rd, httpVars, riskVars, simVars, wsVars>>

ReaderOps == {"get_latest_data", "get_collected_data", "get_last_receive_info"}

\* What the get_* operation `op` returns at time t.
GetResult(op, b, t) ==
    CASE op = "get_latest_data" -> [NoResult EXCEPT !.latest = GetLatestData(b)]
      [] op = "get_collected_data" -> [NoResult EXCEPT !.hist = GetCollectedData(b)]
      [] OTHER -> [NoResult EXCEPT !.info = GetLastReceiveInfo(b, t)]

\* A reader calls one of the three get_* operations: with self.lock
ReaderAcquire(r, op) ==
    /\ rd[r].pc = "idle"
    /\ LockFree(buf)
    /\ buf' = [buf EXCEPT !.lock = r]
    /\ rd' = [rd EXCEPT ![r] = [pc |-> "in", op |-> op, ret |-> NoResult]]
    /\ UNCHANGED <<now, objs, wr, buf_h, httpVars, riskVars, simVars, wsVars>>

\* The body of the get_* operation; the lock is released on return.
ReaderReturn(r) ==
    /\ rd[r].pc = "in"
    /\ rd' = [rd EXCEPT
                ![r].pc = "idle",
                ![r].ret = GetResult(rd[r].op, buf, now)]
    /\ buf' = [buf EXCEPT !.lock = "free"]
    /\ UNCHANGED <<now, objs, wr, buf_h, httpVars, riskVars, simVars, wsVars>>

\* What a caller may do to a list it was handed.
Mutations == {"pop", "append", "reverse"}

Reverse(q) == [i \in 1..Len(q) |-> q[Len(q) + 1 - i]]

Mutate(q, m) ==
    CASE m = "pop" -> SubSeq(q, 1, Len(q) - 1)
      [] m = "append" -> Append(q, q[1])
      [] OTHER -> Reverse(q)

\* The list object a reader holds is the buffer's own collected_data list.
Aliased(r) == rd[r].ret.hist.list_id = buf.list_id

\* The elements of the list object a reader holds.
HeldItems(r) == IF Aliased(r) THEN buf.collected_data ELSE rd[r].ret.hist.items

\* The caller changes the list get_collected_data handed it. A change to a
\* list object shows in every reference to that object.
MutateReturned(r, m) ==
    /\ rd[r].pc = "idle"
    /\ rd[r].op = "get_collected_data"
    /\ ~rd[r].ret.mutated
    /\ HeldItems(r) # <<>>
    /\ rd' = [rd EXCEPT ![r].ret.hist.items = Mutate(HeldItems(r), m),
                        ![r].ret.mutated = TRUE]
    /\ buf' = IF Aliased(r)
              THEN [buf EXCEPT !.collected_data = Mutate(HeldItems(r), m)]
              ELSE buf
    /\ UNCHANGED <<now, objs, wr, buf_h, httpVars, riskVars, simVars, wsVars>>

\* The caller assigns to a field of the DroneData object get_latest_data
\* handed it (DroneData is a plain dataclass, its instances are mutable). A
\* change to an object shows in every reference to that object.
MutateLatest(r) ==
    /\ rd[r].pc = "idle"
    /\ rd[r].op = "get_latest_data"
    /\ ~rd[r].ret.mutated
    /\ rd[r].ret.latest # NoData
    /\ objs' = [objs EXCEPT ![rd[r].ret.latest].is_valid = ~@]
    /\ rd' = [rd EXCEPT ![r].ret.mutated = TRUE]
    /\ UNCHANGED <<now, buf, wr, buf_h, httpVars, riskVars, simVars, wsVars>>

\* The observations the buffer b holds, by value, in the heap `heap`: the
\* latest (none or one) and the history.
StoredValues(b, heap) ==
    [latest |-> IF b.latest_data = NoData THEN <<>> ELSE <<heap[b.latest_data]>>,
     history |-> [k \in 1..Len(b.collected_data) |-> heap[b.collected_data[k]]]]

\* update_data from call to return.
UpdateDataCall(w) ==
    /\ wr[w].pc = "call"
    /\ LockFree(buf)
    /\ buf' = UpdateData(buf, wr[w].d, now)
    /\ wr' = [wr EXCEPT ![w] = [pc |-> "idle", d |-> NoData]]
    /\ buf_h' = [buf_h EXCEPT !.last_completed = wr[w].d,
                              !.written = Append(@, wr[w].d)]
    /\ UNCHANGED <<now, objs, rd, httpVars, riskVars, simVars, wsVars>>

\* A get_* operation from call to return.
GetCall(r, op) ==
    /\ rd[r].pc = "idle"
    /\ LockFree(buf)
    /\ rd' = [rd EXCEPT ![r] = [pc |-> "idle", op |-> op,
                                ret |-> GetResult(op, buf, now)]]
    /\ UNCHANGED <<now, objs, buf, wr, buf_h, httpVars, riskVars, simVars, wsVars>>

BufNext ==
    \/ Tick
    \/ \E w \in Writers :
         \/ \E v \in BOOLEAN : WriterCreate(w, v, MaxConcObs)
         \/ WriterAcquire(w)
         \/ WriterSetLatest(w)
         \/ WriterEvict(w)
         \/ WriterAppend(w)
         \/ WriterStamp(w)
    \/ \E r \in Readers :
         \/ \E op \in ReaderOps : ReaderAcquire(r, op)
         \/ ReaderReturn(r)

\* The operations called one after another, each running to its return.
ApiNext ==
    \/ Tick
    \/ \E v \in BOOLEAN : WriterCreate("w1", v, MaxObs)
    \/ UpdateDataCall("w1")
    \/ \E op \in ReaderOps : GetCall("r1", op)
    \/ \E m \in Mutations : MutateReturned("r1", m)
    \/ MutateLatest("r1")

(***************************************************************************)
(* DroneWebSocketClient: connection life cycle                             *)
(***************************************************************************)

\* How many WebSocketApp objects (connection attempts) one run may create.
MaxConns == 2

Conns == 1..MaxConns

WsInit ==
    /\ ws = [is_running |-> FALSE, reconnect_flag |-> TRUE,
             heartbeat_running |-> FALSE, ws |-> 0]
    /\ conn = [c \in Conns |-> "none"]
    /\ cl = [pc |-> "none", c |-> 0, depth |-> 0]
    /\ snd = [c \in Conns |-> "none"]
    /\ hb = [c \in Conns |-> "none"]
    /\ wire = [c \in Conns |-> {}]
    /\ ws_h = [main_pc |-> "init", sent_after_stop |-> FALSE,
               opened_after_stop |-> FALSE, down |-> FALSE,
               activity_while_down |-> FALSE, disconnects |-> 0, attempts |-> 0,
               stop_in_delay |-> FALSE, last_msg |-> "none",
               last_shape |-> "none", last_exc |-> "none",
               last_schema_ok |-> FALSE, received |-> 0,
               written_after_drop |-> FALSE,
               trigger_attempts |-> [c \in Conns |-> 0],
               triggers_sent |-> [c \in Conns |-> 0],
               first_sent |-> [c \in Conns |-> "none"],
               last_payload |-> [x |-> 0, y |-> 0, z |-> 0, timestamp |-> 0],
               last_sleep |-> [empty |-> 0, ping |-> 0]]

\* on_close is in its time.sleep(RECONNECT_INTERVAL), line 135.
InReconnectDelay == cl.pc = "l135"

\* stop() has returned.
Stopped == ws_h.main_pc = "stopped"

\* start(): both flags set, the client thread started on start_client.
Start ==
    /\ ws_h.main_pc = "init"
    /\ ws' = [ws EXCEPT !.is_running = TRUE, !.reconnect_flag = TRUE]
    /\ cl' = [cl EXCEPT !.pc = "l157", !.depth = 1]
    /\ ws_h' = [ws_h EXCEPT !.main_pc = "started"]
    /\ UNCHANGED <<conn, snd, hb, wire, httpVars, riskVars, simVars, bufVars>>

\* start_client lines 156-164: self.ws = websocket.WebSocketApp(...)
ClientCreateApp ==
    /\ cl.pc = "l157"
    /\ \E c \in Conns :
         /\ conn[c] = "none"
         /\ \A u \in Conns : u < c => conn[u] # "none"
         /\ conn' = [conn EXCEPT ![c] = "created"]
         /\ ws' = [ws EXCEPT !.ws = c]
         /\ cl' = [cl EXCEPT !.pc = "l166", !.c = c]
    /\ UNCHANGED <<snd, hb, wire, ws_h, httpVars, riskVars, simVars, bufVars>>

\* run_forever: the connection is established; on_open is dispatched.
ConnectOk ==
    /\ cl.pc = "l166"
    /\ conn[cl.c] = "created"
    /\ conn' = [conn EXCEPT ![cl.c] = "open"]
    /\ cl' = [cl EXCEPT !.pc = "l43"]
    /\ ws_h' = [ws_h EXCEPT !.down = FALSE,
                            !.opened_after_stop = @ \/ Stopped]
    /\ UNCHANGED <<ws, snd, hb, wire, httpVars, riskVars, simVars, bufVars>>

\* run_forever: the connection attempt fails; on_error is dispatched.
ConnectFail ==
    /\ cl.pc = "l166"
    /\ conn' = [conn EXCEPT ![cl.c] = "closed"]
    /\ cl' = [cl EXCEPT !.pc = "l126"]
    /\ UNCHANGED <<ws, snd, hb, wire, ws_h, httpVars, riskVars, simVars, bufVars>>

\* ws.send(...) on the WebSocketApp c: the message goes out if the
\* connection is open; otherwise send raises.
SendOk(c) == conn[c] = "open"

\* What the history records of a ws.send(kind) on connection c.
Sent(h, c, kind) ==
    IF SendOk(c) /\ h.first_sent[c] = "none"
    THEN [h EXCEPT !.first_sent[c] = kind]
    ELSE h

\* on_open going on to line 46 without calling _send_trigger_message.
OnOpenTrigger_NoSend ==
    /\ cl.pc = "l43"
    /\ cl' = [cl EXCEPT !.pc = "l46"]
    /\ UNCHANGED <<ws, conn, snd, hb, wire, ws_h, httpVars, riskVars, simVars,
                   bufVars>>

\* on_open line 43: _send_trigger_message (a send failure is caught).
OnOpenTrigger ==
    /\ cl.pc = "l43"
    /\ wire' = IF SendOk(cl.c)
               THEN [wire EXCEPT ![cl.c] = @ \cup {"position"}]
               ELSE wire
    /\ ws_h' = [Sent(ws_h, cl.c, "position") EXCEPT
                  !.trigger_attempts[cl.c] = @ + 1,
                  !.triggers_sent[cl.c] = IF SendOk(cl.c) THEN @ + 1 ELSE @]
    /\ cl' = [cl EXCEPT !.pc = "l46"]
    /\ UNCHANGED <<ws, conn, snd, hb, httpVars, riskVars, simVars, bufVars>>

\* on_open line 46: start_send_thread
OnOpenStartSend ==
    /\ cl.pc = "l46"
    /\ snd' = [snd EXCEPT ![cl.c] = "l76"]
    /\ cl' = [cl EXCEPT !.pc = "l49"]
    /\ UNCHANGED <<ws, conn, hb, wire, ws_h, httpVars, riskVars, simVars, bufVars>>

\* on_open line 49: start_heartbeat
OnOpenStartHeartbeat ==
    /\ cl.pc = "l49"
    /\ ws' = [ws EXCEPT !.heartbeat_running = TRUE]
    /\ hb' = [hb EXCEPT ![cl.c] = "l143"]
    /\ cl' = [cl EXCEPT !.pc = "recv"]
    /\ UNCHANGED <<conn, snd, wire, ws_h, httpVars, riskVars, simVars, bufVars>>

\* The peer or the network ends an open connection.
ServerDrop(c) ==
    /\ conn[c] = "open"
    /\ conn' = [conn EXCEPT ![c] = "closed"]
    /\ UNCHANGED <<ws, cl, snd, hb, wire, ws_h, httpVars, riskVars, simVars, bufVars>>

\* run_forever finds the connection gone: on_error then on_close after a
\* failure, on_close alone after a close.
ClientTeardown ==
    /\ cl.pc = "recv"
    /\ conn[cl.c] = "closed"
    /\ \E next \in {"l126", "l132"} : cl' = [cl EXCEPT !.pc = next]
    /\ UNCHANGED <<ws, conn, snd, hb, wire, ws_h, httpVars, riskVars, simVars, bufVars>>

\* on_error: self.heartbeat_running = False; on_close follows.
OnError ==
    /\ cl.pc = "l126"
    /\ ws' = [ws EXCEPT !.heartbeat_running = FALSE]
    /\ cl' = [cl EXCEPT !.pc = "l132"]
    /\ UNCHANGED <<conn, snd, hb, wire, ws_h, httpVars, riskVars, simVars, bufVars>>

\* on_close lines 132-134: heartbeat_running = False; with reconnect_flag
\* set the reconnect delay starts, otherwise every nested call returns.
OnClose ==
    /\ cl.pc = "l132"
    /\ ws' = [ws EXCEPT !.heartbeat_running = FALSE]
    /\ IF ws.reconnect_flag
       THEN /\ cl' = [cl EXCEPT !.pc = "l135"]
            /\ ws_h' = [ws_h EXCEPT !.down = TRUE, !.disconnects = @ + 1]
       ELSE /\ cl' = [cl EXCEPT !.pc = "done", !.depth = 0]
            /\ ws_h' = ws_h
    /\ UNCHANGED <<conn, snd, hb, wire, httpVars, riskVars, simVars, bufVars>>

\* The interpreter's recursion limit, counted in nested start_client
\* activations (on_close calls start_client, whose run_forever calls the next
\* on_close, and none of them returns in between).
RecursionLimit == 2

\* on_close lines 135-136: the delay is over; self.start_client() is called
\* from inside on_close. At the recursion limit the call raises
\* RecursionError instead, which the handlers up the stack absorb: every
\* activation returns and the client thread ends.
Reconnect ==
    /\ cl.pc = "l135"
    /\ cl' = IF cl.depth < RecursionLimit
             THEN [cl EXCEPT !.pc = "l157", !.depth = @ + 1]
             ELSE [cl EXCEPT !.pc = "done", !.depth = 0]
    /\ ws_h' = [ws_h EXCEPT !.attempts = @ + 1]
    /\ UNCHANGED <<ws, conn, snd, hb, wire, httpVars, riskVars, simVars, bufVars>>

\* send_loop line 76: while self.is_running and self.reconnect_flag
SendLoopCondition == ws.is_running /\ ws.reconnect_flag

SenderCheck(c) ==
    /\ snd[c] = "l76"
    /\ snd' = [snd EXCEPT ![c] = IF SendLoopCondition THEN "l81" ELSE "dead"]
    /\ UNCHANGED <<ws, conn, cl, hb, wire, ws_h, httpVars, riskVars, simVars, bufVars>>

\* send_loop line 87: time.sleep(Constant.SEND_TRIGGER_INTERVAL), seconds.
SEND_TRIGGER_INTERVAL == 1

\* heartbeat_loop line 147: time.sleep(3), seconds.
HEARTBEAT_SLEEP == 3

\* The seconds a periodic task sleeps after a send of this kind.
SleepAfter(kind) ==
    IF kind = "empty" THEN SEND_TRIGGER_INTERVAL ELSE HEARTBEAT_SLEEP

\* A periodic task calls ws.send on connection c and, unless the send
\* raised, sleeps its interval.
TaskSend(c, kind) ==
    /\ wire' = IF SendOk(c) THEN [wire EXCEPT ![c] = @ \cup {kind}] ELSE wire
    /\ ws_h' = [Sent(ws_h, c, kind) EXCEPT
                  !.sent_after_stop = @ \/ (Stopped /\ SendOk(c)),
                  !.activity_while_down = @ \/ ws_h.down,
                  !.last_sleep[kind] = IF SendOk(c) THEN SleepAfter(kind) ELSE @]

\* send_loop lines 79-90: ws.send(json.dumps({})), then the sleep; a send
\* that raises ends the loop.
SenderSend(c) ==
    /\ snd[c] = "l81"
    /\ TaskSend(c, "empty")
    /\ snd' = [snd EXCEPT ![c] = IF SendOk(c) THEN "l76" ELSE "dead"]
    /\ UNCHANGED <<ws, conn, cl, hb, httpVars, riskVars, simVars, bufVars>>

\* heartbeat_loop line 143: while self.heartbeat_running
HeartbeatCheck(c) ==
    /\ hb[c] = "l143"
    /\ hb' = [hb EXCEPT ![c] = IF ws.heartbeat_running THEN "l146" ELSE "dead"]
    /\ UNCHANGED <<ws, conn, cl, snd, wire, ws_h, httpVars, riskVars, simVars, bufVars>>

\* heartbeat_loop lines 145-150: the ping, then the sleep.
HeartbeatSend(c) ==
    /\ hb[c] = "l146"
    /\ TaskSend(c, "ping")
    /\ hb' = [hb EXCEPT ![c] = IF SendOk(c) THEN "l143" ELSE "dead"]
    /\ UNCHANGED <<ws, conn, cl, snd, httpVars, riskVars, simVars, bufVars>>

\* stop() lines 183-185: the three flags are cleared.
StopFlags ==
    /\ ws_h.main_pc = "started"
    /\ ws' = [ws EXCEPT !.is_running = FALSE, !.reconnect_flag = FALSE,
                        !.heartbeat_running = FALSE]
    /\ ws_h' = [ws_h EXCEPT !.main_pc = "stopping",
                            !.stop_in_delay = InReconnectDelay]
    /\ UNCHANGED <<conn, cl, snd, hb, wire, httpVars, riskVars, simVars, bufVars>>

\* WebSocketApp.close() on c: an open connection is closed; on an app that
\* is still connecting the attempt may or may not be cut short.
AfterClose(c, cut) ==
    IF conn[c] = "open" \/ (conn[c] = "created" /\ cut)
    THEN [conn EXCEPT ![c] = "closed"]
    ELSE conn

\* stop() lines 186-188: if self.ws: self.ws.close(); stop returns.
StopClose ==
    /\ ws_h.main_pc = "stopping"
    /\ IF ws.ws # 0
       THEN \E cut \in BOOLEAN : conn' = AfterClose(ws.ws, cut)
       ELSE conn' = conn
    /\ ws_h' = [ws_h EXCEPT !.main_pc = "stopped",
                            !.stop_in_delay = @ /\ InReconnectDelay]
    /\ UNCHANGED <<ws, cl, snd, hb, wire, httpVars, riskVars, simVars, bufVars>>

WsNext ==
    \/ Start
    \/ StopFlags
    \/ StopClose
    \/ ClientCreateApp
    \/ ConnectOk
    \/ ConnectFail
    \/ OnOpenTrigger
    \/ OnOpenStartSend
    \/ OnOpenStartHeartbeat
    \/ ClientTeardown
    \/ OnError
    \/ OnClose
    \/ Reconnect
    \/ \E c \in Conns :
         \/ ServerDrop(c)
         \/ SenderCheck(c)
         \/ SenderSend(c)
         \/ HeartbeatCheck(c)
         \/ HeartbeatSend(c)

(***************************************************************************)
(* Risk values: DroneRiskCalculator.calculate_risk, the same formula in    *)
(* DroneSimService._simulate_single_data, and                              *)
(* DroneWebSocketClient._calculate_risk                                    *)
(***************************************************************************)

\* Distances are whole metres and rates tenths of a metre per second. A risk
\* value is kept in thousandths, so that round(r, 2) has something to round.
Milli == 1000
max_risk == 100 * Milli
min_risk == 0

\* Constant.PROTECT_ZONE and Constant.KILL_ZONE
PROTECT_ZONE == 10000
KILL_ZONE == 1000

\* The inputs the risk functions are applied to: distances around every
\* zone border and far beyond, rates of either sign, and the zone borders
\* (protect_zone, kill_zone) a simulation can be constructed with.
Distances ==
    {0, 1, 199, 200, 201, 500, 600, 999, 1000, 1001, 1500, 5500, 9999,
     10000, 10001, 20000}
FarDistances == {29999, 30000, 30001, 100000}
ChangeRates == {-290, -233, -20, -1, 0, 1, 20, 290}
Borders == {0, 1, 200, 1000, 1001, 10000}
ZonePairs == {z \in Borders \X Borders : z[2] < z[1]}

Max(a, b) == IF a >= b THEN a ELSE b
Min(a, b) == IF a <= b THEN a ELSE b

\* max(lo, min(hi, r))
Clamp(lo, hi, r) == Max(lo, Min(hi, r))

\* a * b / c for c > 0, rounded down, computed in two parts so that no
\* intermediate value leaves the range of the model checker's integers.
MulDiv(a, b, c) == (a \div c) * b + ((a % c) * b) \div c

\* a * b / c for c # 0.
Divide(a, b, c) == IF c > 0 THEN MulDiv(a, b, c) ELSE MulDiv(-a, b, -c)

\* round(r, 2): to the nearest hundredth.
Round2(r) == ((r + 5) \div 10) * 10

\* calculate_risk lines 25-31: the base risk for a distance, with
\* D1 = protect_zone and D2 = kill_zone.
BaseRisk(distance, D1, D2) ==
    IF distance > D1
    THEN Clamp(min_risk, max_risk, Divide(D1 - distance, max_risk, D1 - D2))
    ELSE IF D2 < distance /\ distance <= D1
    THEN 70 * Milli
    ELSE max_risk

\* The division of line 26 raises ZeroDivisionError when it is reached with
\* D1 = D2.
RaisesZeroDivision(distance, D1, D2) == distance > D1 /\ D1 = D2

\* A trend correction that takes every rate for an opening one.
TrendCorrected_Opening(r_base, change_rate) == (r_base * 8) \div 10

\* calculate_risk lines 34-39: the trend correction, without the clamp.
TrendCorrected(r_base, change_rate) ==
    IF change_rate < 0 THEN (r_base * 12) \div 10
    ELSE IF change_rate > 0 THEN (r_base * 8) \div 10
    ELSE r_base

\* DroneRiskCalculator.calculate_risk without the clamp of line 42.
CalculateRisk_NoClamp(distance, change_rate, D1, D2) ==
    Round2(TrendCorrected(BaseRisk(distance, D1, D2), change_rate))

\* DroneRiskCalculator.calculate_risk
CalculateRisk(distance, change_rate, D1, D2) ==
    Round2(Clamp(min_risk, max_risk,
                 TrendCorrected(BaseRisk(distance, D1, D2), change_rate)))

\* DroneSimService._simulate_single_data lines 50-68: the same formula, with
\* the rounding inside the clamp.
SimulatedRisk(distance, change_rate, D1, D2) ==
    Clamp(min_risk, max_risk,
          Round2(TrendCorrected(BaseRisk(distance, D1, D2), change_rate)))

\* DroneHTTPServer._calculate_drone_data lines 80-95: the same formula
\* again, rounding inside the clamp.
ServerRisk(distance, change_rate, D1, D2) ==
    Clamp(min_risk, max_risk,
          Round2(TrendCorrected(BaseRisk(distance, D1, D2), change_rate)))

\* unmanned_aerial_vehicle_single.py: the borders are module constants.
Single_D1 == 1000
Single_D2 == 200

\* unmanned_aerial_vehicle_single.calculate_drone_risk
CalculateDroneRisk(distance, distance_change_rate) ==
    Round2(Clamp(min_risk, max_risk,
                 TrendCorrected(BaseRisk(distance, Single_D1, Single_D2),
                                distance_change_rate)))

\* _calculate_risk line 31-32: between the zones, with the borders
\* protect and kill that Constant holds.
ZoneMiddle(distance, protect, kill) ==
    Clamp(70 * Milli, 100 * Milli,
          100 * Milli - MulDiv(distance - kill, 30 * Milli, protect - kill))

\* The branch beyond the protect zone measuring the distance from 0.
ZoneFar_FromOrigin(distance, protect) ==
    Clamp(0, 70 * Milli, 70 * Milli - MulDiv(distance, 70 * Milli, protect * 2))

\* _calculate_risk line 34-35: beyond the protect zone.
ZoneFar(distance, protect) ==
    Clamp(0, 70 * Milli,
          70 * Milli - MulDiv(distance - protect, 70 * Milli, protect * 2))

\* DroneWebSocketClient._calculate_risk under the configuration
\* Constant.PROTECT_ZONE = protect, Constant.KILL_ZONE = kill.
ZoneRiskFor(distance, protect, kill) ==
    Round2(
      IF distance <= kill
      THEN max_risk
      ELSE IF kill < distance /\ distance <= protect
      THEN ZoneMiddle(distance, protect, kill)
      ELSE ZoneFar(distance, protect))

\* DroneWebSocketClient._calculate_risk
ZoneRisk(distance) == ZoneRiskFor(distance, PROTECT_ZONE, KILL_ZONE)

(***************************************************************************)
(* DroneWebSocketClient.on_message                                         *)
(***************************************************************************)

\* How many observations on_message may write in one run.
MaxWritten == 2

\* How long after line 110 (sys_time = datetime.now()) update_data can run.
MaxLatency == 1

\* One of x, y, z in the position object: the key is absent, or its value is
\* a JSON number, a string float() accepts, a string it rejects, or null.
FieldKinds == {"absent", "num", "numstr", "text", "null"}


NoFields == [x |-> "absent", y |-> "absent", z |-> "absent"]

\* The inbound texts, by what json.loads makes of them: it raises (not_json),
\* or returns a number, string, bool or null (scalar), a list (array), an
\* object without a data key (flat), an object whose data is an object
\* (wrapped), or an object whose data is anything else (wrapped_bad).
Messages ==
    {[shape |-> sh, pos |-> NoFields] :
        sh \in {"not_json", "scalar", "array", "wrapped_bad"}}
    \cup {[shape |-> sh, pos |-> [x |-> fx, y |-> fy, z |-> fz]] :
            sh \in {"flat", "wrapped"},
            fx \in FieldKinds, fy \in FieldKinds, fz \in FieldKinds}

\* float(pos_data.get(k, 0.0)): the default and numbers convert, so do
\* numeric strings; other strings raise ValueError, None raises TypeError.
FloatOf(kind) ==
    CASE kind \in {"absent", "num", "numstr"} -> "none"
      [] kind = "text" -> "ValueError"
      [] kind = "null" -> "TypeError"

FirstError(errs) ==
    IF errs = <<>> THEN "none"
    ELSE IF Head(errs) # "none" THEN Head(errs)
    ELSE IF Tail(errs) = <<>> THEN "none"
    ELSE IF Head(Tail(errs)) # "none" THEN Head(Tail(errs))
    ELSE IF Tail(Tail(errs)) = <<>> THEN "none"
    ELSE Head(Tail(Tail(errs)))

\* Lines 99-109 of on_message: the exception the parsing raises, or "none".
ParseMessage(m) ==
    CASE m.shape = "not_json" -> "JSONDecodeError"
      [] m.shape = "scalar" -> "TypeError"
      [] m.shape \in {"array", "wrapped_bad"} -> "AttributeError"
      [] m.shape \in {"flat", "wrapped"} ->
            FirstError(<<FloatOf(m.pos.x), FloatOf(m.pos.y), FloatOf(m.pos.z)>>)

\* The exception classes the parsing can raise, all subclasses of Exception.
Exceptions == {"JSONDecodeError", "TypeError", "AttributeError", "ValueError"}

\* The except clauses of on_message, with only the first one present.
Caught_OnlyJson(exc) == exc = "JSONDecodeError"

\* except json.JSONDecodeError ... except Exception: every exception class
\* the parsing raises is handled inside on_message.
Caught(exc) == exc \in Exceptions

\* The message format the interface names: an object, flat or under data,
\* with numeric x, y and z.
SchemaOk(m) ==
    /\ m.shape \in {"flat", "wrapped"}
    /\ \A k \in {"x", "y", "z"} : m.pos[k] = "num"

\* What the history keeps of the inbound message m: its shape, what parsing
\* it raised, whether it follows the schema, and the parity of the number of
\* messages handled so far.
Received(h, m, outcome) ==
    [h EXCEPT !.last_msg = outcome, !.last_shape = m.shape,
              !.last_exc = ParseMessage(m), !.last_schema_ok = SchemaOk(m),
              !.received = 1 - @]

\* The numbers an inbound position carries, in whole metres, and the
\* timestamp in its payload (NoTime when it has none).
Payloads ==
    {[x |-> c[1], y |-> c[2], z |-> 50, timestamp |-> t] :
        c \in {<<600, 800>>, <<6000, 8000>>, <<20000, 21000>>},
        t \in {NoTime, MaxTime}}

\* A payload of zeros without a timestamp.
ZeroPayload == [x |-> 0, y |-> 0, z |-> 0, timestamp |-> NoTime]

\* float(pos_data.get(k, 0.0)) for the fields that convert: the default
\* where the key is absent.
Position(m, v) ==
    [x |-> IF m.pos.x = "absent" THEN 0 ELSE v.x,
     y |-> IF m.pos.y = "absent" THEN 0 ELSE v.y,
     z |-> IF m.pos.z = "absent" THEN 0 ELSE v.z,
     timestamp |-> v.timestamp]

\* The largest r in lo..hi with r * r <= s.
RECURSIVE SqrtBetween(_, _, _)
SqrtBetween(s, lo, hi) ==
    IF lo >= hi THEN lo
    ELSE LET mid == (lo + hi + 1) \div 2 IN
         IF mid * mid <= s THEN SqrtBetween(s, mid, hi)
         ELSE SqrtBetween(s, lo, mid - 1)

\* math.hypot(x, y), in whole metres.
Hypot(x, y) == SqrtBetween(x * x + y * y, 0, 40000)

\* An observation stamped with the timestamp of the payload, if it has one.
CapturedAt_Payload(receive_time, pos) ==
    IF pos.timestamp # NoTime THEN pos.timestamp ELSE receive_time

\* on_message line 110: sys_time = datetime.now()
CapturedAt(receive_time, pos) == receive_time

\* on_message lines 110-116: the DroneData built from a parsed position.
PositionData(receive_time, pos) ==
    [sys_time |-> CapturedAt(receive_time, pos),
     x |-> pos.x, y |-> pos.y, z |-> pos.z,
     distance |-> Hypot(pos.x, pos.y),
     risk_value |-> ZoneRisk(Hypot(pos.x, pos.y)),
     is_valid |-> TRUE]

\* on_message for one inbound message m on the current connection, its
\* numbers being those of v.
OnMessage(m, v) ==
    /\ cl.pc = "recv"
    /\ conn[cl.c] = "open"
    /\ LET exc == ParseMessage(m) IN
       IF exc = "none"
       THEN \E dt \in 0..MaxLatency :
              /\ Len(objs) < MaxWritten
              /\ now + dt <= MaxTime
              /\ LockFree(buf)
              /\ objs' = Append(objs, PositionData(now, Position(m, v)))
              /\ now' = now + dt
              /\ buf' = UpdateData(buf, Len(objs) + 1, now + dt)
              /\ buf_h' = [buf_h EXCEPT !.last_completed = Len(objs) + 1,
                                        !.written = Append(@, Len(objs) + 1)]
              /\ ws_h' = [Received(ws_h, m, "written") EXCEPT
                            !.written_after_drop = @ \/ ws_h.last_msg = "dropped",
                            !.last_payload = Position(m, v)]
              /\ UNCHANGED <<ws, conn, cl>>
       ELSE IF Caught(exc)
       THEN /\ ws_h' = Received(ws_h, m, "dropped")
            /\ UNCHANGED <<now, objs, buf, buf_h, ws, conn, cl>>
       ELSE \* the exception leaves on_message: the dispatcher reports it
            \* through on_error
            /\ ws_h' = Received(ws_h, m, "escaped")
            /\ ws' = [ws EXCEPT !.heartbeat_running = FALSE]
            /\ UNCHANGED <<now, objs, buf, buf_h, conn, cl>>
    /\ UNCHANGED <<wr, rd, snd, hb, wire, httpVars, riskVars, simVars>>

MsgNext ==
    \/ Start
    \/ ClientCreateApp
    \/ ConnectOk
    \/ OnOpenTrigger
    \/ OnOpenStartSend
    \/ OnOpenStartHeartbeat
    \/ Tick
    \/ \E m \in Messages : OnMessage(m, ZeroPayload)

\* The same client receiving positions that follow the schema, with their
\* numbers, and texts that are not JSON.
PositionMessages == {m \in Messages : SchemaOk(m) \/ m.shape = "not_json"}

PosNext ==
    \/ Start
    \/ ClientCreateApp
    \/ ConnectOk
    \/ OnOpenTrigger
    \/ OnOpenStartSend
    \/ OnOpenStartHeartbeat
    \/ Tick
    \/ \E m \in PositionMessages, v \in Payloads : OnMessage(m, v)

(***************************************************************************)
(* One call of a risk function                                             *)
(***************************************************************************)

RiskInit ==
    rk = [fn |-> "none", distance |-> 0, change_rate |-> 0,
          D1 |-> 0, D2 |-> 0, risk |-> 0]

\* What a call of the risk function fn leaves in rk.
RiskRecord(fn, d, cr, D1, D2, risk) ==
    [fn |-> fn, distance |-> d, change_rate |-> cr,
     D1 |-> D1, D2 |-> D2, risk |-> risk]

\* A behaviour applies one of the three functions once, to inputs of its
\* choice: calculate_risk with the borders z of its simulation,
CallCalculateRisk(d, cr, z) ==
    /\ rk.fn = "none"
    /\ rk' = RiskRecord("calculate_risk", d, cr, z[1], z[2],
                        CalculateRisk(d, cr, z[1], z[2]))
    /\ UNCHANGED <<httpVars, simVars, bufVars, wsVars, calc>>

\* the risk part of _simulate_single_data,
CallSimulatedRisk(d, cr, z) ==
    /\ rk.fn = "none"
    /\ rk' = RiskRecord("_simulate_single_data", d, cr, z[1], z[2],
                        SimulatedRisk(d, cr, z[1], z[2]))
    /\ UNCHANGED <<httpVars, simVars, bufVars, wsVars, calc>>

\* or _calculate_risk, which takes the distance alone.
CallZoneRisk(d) ==
    /\ rk.fn = "none"
    /\ rk' = RiskRecord("_calculate_risk", d, 0, PROTECT_ZONE, KILL_ZONE,
                        ZoneRisk(d))
    /\ UNCHANGED <<httpVars, simVars, bufVars, wsVars, calc>>

\* The same with other borders configured,
CallZoneRiskWith(d, z) ==
    /\ rk.fn = "none"
    /\ rk' = RiskRecord("_calculate_risk", d, 0, z[1], z[2],
                        ZoneRiskFor(d, z[1], z[2]))
    /\ UNCHANGED <<httpVars, simVars, bufVars, wsVars, calc>>

\* the risk part of the server's _calculate_drone_data,
CallServerRisk(d, cr, z) ==
    /\ rk.fn = "none"
    /\ rk' = RiskRecord("_calculate_drone_data", d, cr, z[1], z[2],
                        ServerRisk(d, cr, z[1], z[2]))
    /\ UNCHANGED <<httpVars, simVars, bufVars, wsVars, calc>>

\* or the script's calculate_drone_risk.
CallCalculateDroneRisk(d, cr) ==
    /\ rk.fn = "none"
    /\ rk' = RiskRecord("calculate_drone_risk", d, cr, Single_D1, Single_D2,
                        CalculateDroneRisk(d, cr))
    /\ UNCHANGED <<httpVars, simVars, bufVars, wsVars, calc>>

RiskNext ==
    \/ \E d \in Distances, cr \in ChangeRates, z \in ZonePairs :
         \/ CallCalculateRisk(d, cr, z)
         \/ CallSimulatedRisk(d, cr, z)
         \/ CallServerRisk(d, cr, z)
    \/ \E d \in Distances, cr \in ChangeRates : CallCalculateDroneRisk(d, cr)
    \/ \E d \in Distances \cup FarDistances : CallZoneRisk(d)
    \/ \E z \in ZonePairs : \E d \in Distances \cup {z[1] + 1} :
         CallZoneRiskWith(d, z)

(***************************************************************************)
(* DroneSimulation and DroneRiskCalculator (simulator/), and the borders   *)
(* of a DroneSimService                                                    *)
(***************************************************************************)

\* The largest frame_num generate_all_data is called with.
MaxFrames == 3

\* DroneSimulation.__init__: the default total_time, in seconds.
simulation_total_time == 60

\* all_distances, all_change_rates and all_risk_values before they are
\* generated; NoScore where no risk value was returned.
None == <<-1>>
NoScore == -1

\* simulate_distance at the k-th of n evenly spaced time points of
\* [0, total_time] (np.linspace; the k-th second of n - 1 for the service):
\* time / (total_time / 2) is 2k / (n - 1). In whole metres.
SimulateDistance(k, n) ==
    IF n <= 1 THEN 1500
    ELSE IF 2 * k <= n - 1
    THEN 1500 - ((1500 - 800) * 2 * k) \div (n - 1)
    ELSE 800 + ((1500 - 800) * (2 * k - (n - 1))) \div (n - 1)

\* and its change rate, in tenths of a metre per second.
SimulateChangeRate(k, n) ==
    IF n <= 1 \/ 2 * k <= n - 1
    THEN -(((1500 - 800) * 20) \div simulation_total_time)
    ELSE ((1500 - 800) * 20) \div simulation_total_time

\* generate_all_data lines 45-52
AllDistances(n) == [k \in 1..n |-> SimulateDistance(k - 1, n)]
AllChangeRates(n) == [k \in 1..n |-> SimulateChangeRate(k - 1, n)]

\* generate_risk_data lines 53-56: the risk values appended before the
\* first calculate_risk that raises, all of them if none does.
RECURSIVE RiskValues(_, _, _, _)
RiskValues(ds, rs, D1, D2) ==
    IF ds = <<>> \/ RaisesZeroDivision(Head(ds), D1, D2)
    THEN <<>>
    ELSE <<CalculateRisk(Head(ds), Head(rs), D1, D2)>>
         \o RiskValues(Tail(ds), Tail(rs), D1, D2)

\* Whether one of the calls of calculate_risk in generate_risk_data raises.
AnyRaises(ds, D1, D2) ==
    \E k \in 1..Len(ds) : RaisesZeroDivision(ds[k], D1, D2)

CalcInit ==
    calc = [component |-> "none", D1 |-> 0, D2 |-> 0,
            all_distances |-> None, all_change_rates |-> None,
            all_risk_values |-> None,
            last |-> "none", exc |-> "none", score |-> NoScore,
            early |-> FALSE]

\* DroneSimulation.__init__ and DroneRiskCalculator.__init__ on it.
NewSimulation(protect_zone, kill_zone) ==
    /\ calc.component = "none"
    /\ calc' = [calc EXCEPT !.component = "DroneSimulation",
                            !.D1 = protect_zone, !.D2 = kill_zone,
                            !.last = "__init__"]
    /\ UNCHANGED <<httpVars, simVars, bufVars, wsVars, rk>>

\* DroneSimService.__init__
NewService(protect_zone, kill_zone) ==
    /\ calc.component = "none"
    /\ calc' = [calc EXCEPT !.component = "DroneSimService",
                            !.D1 = protect_zone, !.D2 = kill_zone,
                            !.last = "__init__"]
    /\ UNCHANGED <<httpVars, simVars, bufVars, wsVars, rk>>

\* DroneRiskCalculator.calculate_risk(distance, change_rate)
ScoreCalculateRisk(distance, change_rate) ==
    /\ calc.component = "DroneSimulation"
    /\ calc' = IF RaisesZeroDivision(distance, calc.D1, calc.D2)
               THEN [calc EXCEPT !.last = "calculate_risk",
                                 !.exc = "ZeroDivisionError",
                                 !.score = NoScore]
               ELSE [calc EXCEPT !.last = "calculate_risk",
                                 !.exc = "none",
                                 !.score = CalculateRisk(distance, change_rate,
                                                         calc.D1, calc.D2)]
    /\ UNCHANGED <<httpVars, simVars, bufVars, wsVars, rk>>

\* DroneSimService._simulate_single_data(current_time), for a service of
\* total_time seconds.
ScoreSimulateSingleData(current_time) ==
    /\ calc.component = "DroneSimService"
    /\ LET distance == SimulateDistance(current_time, total_time + 1)
           change_rate == SimulateChangeRate(current_time, total_time + 1)
       IN calc' = IF RaisesZeroDivision(distance, calc.D1, calc.D2)
                  THEN [calc EXCEPT !.last = "_simulate_single_data",
                                    !.exc = "ZeroDivisionError",
                                    !.score = NoScore]
                  ELSE [calc EXCEPT !.last = "_simulate_single_data",
                                    !.exc = "none",
                                    !.score = SimulatedRisk(distance, change_rate,
                                                            calc.D1, calc.D2)]
    /\ UNCHANGED <<httpVars, simVars, bufVars, wsVars, rk>>

\* DroneSimulation.generate_all_data(frame_num)
GenerateAllData(frame_num) ==
    /\ calc.component = "DroneSimulation"
    /\ calc' = [calc EXCEPT !.all_distances = AllDistances(frame_num),
                            !.all_change_rates = AllChangeRates(frame_num),
                            !.last = "generate_all_data",
                            !.exc = "none"]
    /\ UNCHANGED <<httpVars, simVars, bufVars, wsVars, rk>>

\* DroneRiskCalculator.generate_risk_data
GenerateRiskData ==
    /\ calc.component = "DroneSimulation"
    /\ calc' =
         IF calc.all_distances = None
         THEN [calc EXCEPT !.last = "generate_risk_data",
                           !.exc = "ValueError",
                           !.early = TRUE]
         ELSE [calc EXCEPT !.last = "generate_risk_data",
                           !.all_risk_values =
                               RiskValues(calc.all_distances,
                                          calc.all_change_rates,
                                          calc.D1, calc.D2),
                           !.exc = IF AnyRaises(calc.all_distances,
                                                calc.D1, calc.D2)
                                   THEN "ZeroDivisionError" ELSE "none"]
    /\ UNCHANGED <<httpVars, simVars, bufVars, wsVars, rk>>

CalcNext ==
    \/ \E z \in Borders \X Borders : NewSimulation(z[1], z[2])
    \/ \E z \in Borders \X Borders : NewService(z[1], z[2])
    \/ \E d \in Distances, cr \in ChangeRates : ScoreCalculateRisk(d, cr)
    \/ \E t \in 0..total_time : ScoreSimulateSingleData(t)
    \/ \E n \in 0..MaxFrames : GenerateAllData(n)
    \/ GenerateRiskData

Init == HttpInit /\ SimInit /\ BufInit /\ WsInit /\ RiskInit /\ CalcInit

SpecHttp == Init /\ [][HttpNext]_vars

SpecSim == Init /\ [][SimNext]_vars

SpecQueue == Init /\ [][QueueNext]_vars

SpecRun == Init /\ [][RunNext]_vars

SpecBuf == Init /\ [][BufNext]_vars

SpecApi == Init /\ [][ApiNext]_vars

SpecWs == Init /\ [][WsNext]_vars

SpecMsg == Init /\ [][MsgNext]_vars

SpecPos == Init /\ [][PosNext]_vars

SpecRisk == Init /\ [][RiskNext]_vars

SpecCalc == Init /\ [][CalcNext]_vars

\* The steps of the client thread (start_client, run_forever and the
\* callbacks it dispatches).
ClientStep ==
    \/ ClientCreateApp
    \/ ConnectOk
    \/ ConnectFail
    \/ OnOpenTrigger
    \/ OnOpenStartSend
    \/ OnOpenStartHeartbeat
    \/ ClientTeardown
    \/ OnError
    \/ OnClose
    \/ Reconnect

\* The client thread is scheduled: it does not stay forever before a step
\* it can take (a sleep ends, run_forever connects or fails, a callback runs).
SpecWsLive == Init /\ [][WsNext]_vars /\ WF_vars(ClientStep)

(***************************************************************************)
(* Claims                                                                  *)
(***************************************************************************)

\* C1: after max_failed consecutive failed requests the polling client's
\* is_running flag is false, and once the breaker has tripped no tick
\* issues a request to the endpoint again.
C1_BreakerStopsRequests ==
    /\ http_h.streak >= max_failed => ~http.is_running
    /\ ~http_h.req_after_trip

\* C3: stop_service does not return while a loop thread started by the
\* service is alive, and nothing is put on data_queue once it has returned.
C3_StopJoinsEveryLoop ==
    /\ StopReturned => \A t \in SimThreads : ~IsAlive(t)
    /\ ~sim_h.put_after_stop

\* C4: after an update_data call made at time t (the time last_receive_time
\* records), every element of collected_data, the one just written included,
\* has sys_time >= t - DISPLAY_WINDOW.
C4_WindowInvariant ==
    buf.last_receive_time # NoTime =>
        \A k \in 1..Len(buf.collected_data) :
            objs[buf.collected_data[k]].sys_time
                >= buf.last_receive_time - DISPLAY_WINDOW

\* The threads inside a buffer operation.
InsideBuffer ==
    {w \in Writers : wr[w].pc \in {"l19", "l20", "l22", "l23"}}
    \cup {r \in Readers : rd[r].pc = "in"}

\* latest_data is the last element of collected_data (or both are empty), and
\* last_receive_time is set iff an update_data call has completed.
BufferConsistent ==
    /\ IF buf.collected_data = <<>>
       THEN buf.latest_data = NoData
       ELSE buf.latest_data = buf.collected_data[Len(buf.collected_data)]
    /\ buf.last_receive_time # NoTime <=> buf_h.last_completed # NoData

\* C8: at most one thread is inside a buffer operation at a time, and the
\* state a reader sees inside a get_* operation is never the intermediate
\* state of an update.
C8_BufferAtomicity ==
    /\ Cardinality(InsideBuffer) <= 1
    /\ \A r \in Readers : rd[r].pc = "in" => BufferConsistent

\* A reader is inside a get_* operation on a non-empty buffer while a writer
\* waits for the lock with its observation.
C8_Witness ==
    \E r \in Readers, w \in Writers :
        /\ rd[r].pc = "in"
        /\ wr[w].pc = "call"
        /\ buf.collected_data # <<>>

\* C9: get_latest_data returns the observation of the update_data call that
\* completed last (None before any), whatever its validity and age.
C9_LatestIsLastWritten ==
    [][\A r \in Readers :
          (rd[r].pc = "in" /\ rd[r].op = "get_latest_data" /\ rd'[r].pc = "idle")
              => rd'[r].ret.latest = buf_h.last_completed]_vars

\* get_latest_data has returned an invalid observation older than the window.
C9_Witness ==
    \E r \in Readers :
        /\ rd[r].pc = "idle"
        /\ rd[r].op = "get_latest_data"
        /\ rd[r].ret.latest # NoData
        /\ rd[r].ret.latest = buf_h.last_completed
        /\ ~objs[rd[r].ret.latest].is_valid
        /\ objs[rd[r].ret.latest].sys_time < now - DISPLAY_WINDOW

\* C10: a caller's change to the list get_collected_data returned changes
\* neither what get_collected_data nor what get_latest_data returns next.
C10_SnapshotNotAliased ==
    [][(\E m \in Mutations : MutateReturned("r1", m)) =>
          /\ GetCollectedData(buf').items = GetCollectedData(buf).items
          /\ GetLatestData(buf') = GetLatestData(buf)]_vars

\* The caller holds a changed list that differs from the buffer's history.
C10_Witness ==
    /\ rd["r1"].ret.mutated
    /\ buf.collected_data # <<>>
    /\ rd["r1"].ret.hist.items # buf.collected_data

\* C2: when stop() ran while on_close was in its reconnect delay, then once
\* stop() has returned, reconnection is disabled, no connection is
\* open, the sender and heartbeat loops send nothing and no connection is
\* opened any more.
C2_StopIsFinal ==
    ws_h.stop_in_delay =>
    /\ Stopped => ~ws.reconnect_flag /\ \A c \in Conns : conn[c] # "open"
    /\ ~ws_h.sent_after_stop
    /\ ~ws_h.opened_after_stop

\* C5: each disconnect with reconnection enabled is followed by exactly one
\* start_client call after the delay, and between the disconnect and the
\* next established connection neither periodic loop calls send.
C5_ReconnectQuiet ==
    /\ ws_h.disconnects = ws_h.attempts + (IF InReconnectDelay THEN 1 ELSE 0)
    /\ ~ws_h.activity_while_down

\* C6: an inbound message whose parsing raises leaves on_message normally,
\* and the buffer (latest, history, last_receive_time), the client flags and
\* the connection are what they were, so the receive loop goes on.
C6_MalformedDropped ==
    [][(ws_h'.received # ws_h.received /\ ws_h'.last_exc # "none") =>
          /\ ws_h'.last_msg = "dropped"
          /\ buf' = buf /\ objs' = objs
          /\ ws' = ws /\ conn' = conn /\ cl' = cl]_vars

\* A message was dropped and a later one was received and written, on the
\* same open connection.
C6_Witness ==
    /\ ws_h.written_after_drop
    /\ cl.pc = "recv" /\ conn[cl.c] = "open"
    /\ buf.latest_data # NoData

\* C7: an inbound message on_message wrote to the buffer was a JSON object, flat or
\* under data, with numeric x, y and z.
C7_OnlySchemaWritten == ws_h.last_msg = "written" => ws_h.last_schema_ok

\* C11: a caller that changes a field of the observation get_latest_data
\* returned changes neither the buffer's latest nor any element of its
\* history.
C11_LatestIsCopy ==
    [][MutateLatest("r1") =>
          StoredValues(buf', objs') = StoredValues(buf, objs)]_vars

\* C12: whatever the interleaving of update_data calls, also of writers that
\* stamp their observation before they take the lock, the history is in
\* ascending sys_time order.
C12_HistoryAscending ==
    \A k \in 1..(Len(buf.collected_data) - 1) :
        objs[buf.collected_data[k]].sys_time
            <= objs[buf.collected_data[k + 1]].sys_time

\* The positions of data_queue the loop thread t filled.
PutsOf(t) == {k \in 1..Len(sim.data_queue) : sim_h.producers[k] = t}

\* The positions where the loop thread t put the end-of-stream marker.
SentinelsOf(t) == {k \in PutsOf(t) : sim.data_queue[k] = Sentinel}

\* Every loop thread has ended and at least one has run.
RunEnded ==
    /\ \E t \in SimThreads : sim_pc[t] = "dead"
    /\ \A t \in SimThreads : ~IsAlive(t)

\* C13: a loop that has left its while loop has put exactly one sentinel,
\* after every observation it put (a loop still in it has put none), and once
\* every loop has ended the last element of the queue is the sentinel.
C13_SentinelEndsStream ==
    /\ \A t \in SimThreads :
          /\ Cardinality(SentinelsOf(t)) =
                 (IF sim_pc[t] \in {"l97", "dead"} THEN 1 ELSE 0)
          /\ \A k \in SentinelsOf(t) : \A j \in PutsOf(t) : j <= k
    /\ RunEnded => sim.data_queue[Len(sim.data_queue)] = Sentinel

\* A loop ran to the duration bound: the queue holds its observations and
\* then the sentinel.
C13_Witness ==
    /\ RunEnded
    /\ sim.current_time > total_time
    /\ Len(sim.data_queue) = total_time + 2
    /\ sim.data_queue[Len(sim.data_queue)] = Sentinel

\* C14: after stop_service has cleared is_running, the loops put at most one
\* more observation before the sentinel.
C14_StopObserved == sim_h.obs_since_stop <= 1

\* C15: a tick whose request fails (other status, transport error, or a 200
\* body lacking a field) adds exactly one to failed_count and ends with the
\* invalid observation; no exception leaves the tick.
C15_FailureCounted ==
    [][\A resp \in Responses :
          (http.is_running /\ FailedRequest(resp) /\ UpdatePlot(resp)) =>
             /\ http_h'.last = "failed"
             /\ http'.failed_count = http.failed_count + 1]_vars

\* C16: a tick whose request returns status 200 with a well-formed body,
\* whatever the values of its fields, sets failed_count to 0.
C16_SuccessResets ==
    [][\A resp \in Responses :
          (http.is_running /\ ~FailedRequest(resp) /\ UpdatePlot(resp)) =>
             http'.failed_count = 0]_vars

\* C17: once the breaker has cleared is_running, the client issues no
\* request, whatever operations follow.
C17_BreakerIsFatal == ~http_h.req_after_trip

\* on_error or on_close has been dispatched for a failed or lost connection.
Disconnected == cl.pc \in {"l126", "l132"}

\* C18: while reconnection stays enabled, every disconnect or failed
\* connection attempt is followed by another start_client call, however many
\* there were before.
C18_AlwaysRetries ==
    (Disconnected /\ ws.reconnect_flag) ~> (cl.pc = "l157" \/ ~ws.reconnect_flag)

\* C19: get_last_receive_info returns the "never received" pair, with
\* elapsed 0, exactly when no update_data call has completed, otherwise the
\* other description with an elapsed time that is not negative; it changes
\* neither latest_data nor collected_data.
C19_ReceiveStatus ==
    [][\A r \in Readers :
          (rd[r].pc = "in" /\ rd[r].op = "get_last_receive_info"
                           /\ rd'[r].pc = "idle") =>
             /\ rd'[r].ret.info.never <=> (buf_h.last_completed = NoData)
             /\ rd'[r].ret.info.never => rd'[r].ret.info.elapsed = 0
             /\ rd'[r].ret.info.elapsed >= 0
             /\ StoredValues(buf', objs') = StoredValues(buf, objs)]_vars

\* get_last_receive_info has returned the elapsed time of an update that
\* completed earlier, while the next update_data call waits for the lock.
C19_Witness ==
    \E r \in Readers :
        /\ rd[r].pc = "idle"
        /\ rd[r].op = "get_last_receive_info"
        /\ ~rd[r].ret.info.never
        /\ rd[r].ret.info.elapsed > 0
        /\ buf_h.last_completed # NoData
        /\ \E w \in Writers : wr[w].pc = "call"

\* C20: for every distance >= 0, every change rate and zone borders with
\* kill_zone < protect_zone, the risk each function returns is in [0, 100].
C20_RiskBounds ==
    rk.fn # "none" => min_risk <= rk.risk /\ rk.risk <= max_risk

\* The trend correction took a base risk of 100 above 100 and the clamp
\* brought it back.
C20_Witness ==
    /\ rk.fn = "calculate_risk"
    /\ rk.change_rate < 0
    /\ rk.distance <= rk.D2
    /\ rk.risk = max_risk

\* The observations put on the queue so far, in the order of the puts.
EnqueuedObservations == SelectSeq(sim_h.enqueued, LAMBDA x : x # Sentinel)

IsPrefix(p, q) == Len(p) <= Len(q) /\ SubSeq(q, 1, Len(p)) = p

\* What the receiver's collected_data must be at any time: a prefix of the
\* observations enqueued, with no sentinel in it.
CollectedInOrder ==
    /\ IsPrefix(rcv.collected_data, EnqueuedObservations)
    /\ \A k \in 1..Len(rcv.collected_data) : rcv.collected_data[k] # Sentinel

\* C21: a tick on an empty queue changes neither collected_data nor the
\* queue (and later ticks go on collecting), the sentinel is never appended,
\* and collected_data is always an in-order prefix of the observations that
\* were enqueued.
C21_ConsumerInOrder ==
    [][/\ CollectedInOrder'
       /\ (ReceiverUpdatePlot /\ sim.data_queue = <<>>) =>
              rcv'.collected_data = rcv.collected_data /\ sim' = sim]_vars

\* The receiver found the queue empty, later took observations, then the
\* sentinel, and holds every observation of the run.
C21_Witness ==
    /\ rcv.data_after_empty
    /\ rcv.last = "sentinel"
    /\ Len(rcv.collected_data) >= 2
    /\ rcv.collected_data = EnqueuedObservations

\* C22: a component constructed with kill_zone >= protect_zone never
\* returns a risk value: its construction or its first scoring call fails.
C22_InvalidZonesRejected ==
    calc.component # "none" /\ calc.D2 >= calc.D1 => calc.score = NoScore

LinearRatio ==
    {"calculate_risk", "_simulate_single_data", "_calculate_drone_data",
     "calculate_drone_risk"}

\* C24: with kill_zone < protect_zone the zone-linear risk is 100 at
\* distance kill_zone and 70 at distance protect_zone, the formula of the
\* branch beyond the protect zone gives 70 at protect_zone as well, and one
\* metre beyond it the risk is below 70 by no more than one metre's slope.
C24_ZoneLinearContinuous ==
    rk.fn = "_calculate_risk" =>
        /\ rk.distance = rk.D2 => rk.risk = 100 * Milli
        /\ rk.distance = rk.D1 =>
              /\ rk.risk = 70 * Milli
              /\ ZoneFar(rk.D1, rk.D1) = 70 * Milli
              /\ ZoneMiddle(rk.D2, rk.D1, rk.D2) = 100 * Milli
        /\ rk.distance = rk.D1 + 1 =>
              /\ rk.risk <= 70 * Milli
              /\ 70 * Milli - rk.risk <= (70 * Milli) \div (2 * rk.D1) + 10

\* The risk one metre beyond a protect zone other than the configured one.
C24_Witness ==
    /\ rk.fn = "_calculate_risk"
    /\ rk.D1 = 1000
    /\ rk.D2 = 200
    /\ rk.distance = rk.D1 + 1
    /\ rk.risk < 70 * Milli
    /\ rk.risk >= 69960

\* What every implementation of the linear-ratio model returns for the
\* inputs of the last call (the script only has its own borders).
Implementations ==
    {CalculateRisk(rk.distance, rk.change_rate, rk.D1, rk.D2),
     SimulatedRisk(rk.distance, rk.change_rate, rk.D1, rk.D2),
     ServerRisk(rk.distance, rk.change_rate, rk.D1, rk.D2)}
    \cup (IF rk.D1 = Single_D1 /\ rk.D2 = Single_D2
          THEN {CalculateDroneRisk(rk.distance, rk.change_rate)}
          ELSE {})

\* C25: for a distance with kill_zone < distance <= protect_zone the
\* linear-ratio risk is 84.0 when the distance is closing, 56.0 when it is
\* opening and 70 when it is constant, and all implementations return the
\* value that the one called returned.
C25_BetweenZones ==
    rk.fn \in LinearRatio /\ rk.D2 < rk.distance /\ rk.distance <= rk.D1 =>
        /\ rk.change_rate < 0 => rk.risk = 84 * Milli
        /\ rk.change_rate > 0 => rk.risk = 56 * Milli
        /\ rk.change_rate = 0 => rk.risk = 70 * Milli
        /\ Implementations = {rk.risk}

\* The script scored 500 m, closing, at 84.0.
C25_Witness ==
    /\ rk.fn = "calculate_drone_risk"
    /\ rk.distance = 500
    /\ rk.change_rate < 0
    /\ rk.risk = 84 * Milli

\* C26: the linear-ratio risk of distance 1500 closing at 23.3 m/s, with
\* kill_zone 200 and protect_zone 1000, is in [90, 100].
C26_BeyondProtectZone ==
    /\ rk.fn \in {"calculate_risk", "calculate_drone_risk"}
    /\ rk.distance = 1500
    /\ rk.change_rate = -233
    /\ rk.D1 = 1000
    /\ rk.D2 = 200
    => 90 * Milli <= rk.risk /\ rk.risk <= 100 * Milli

\* C27: on a connection whose on_open has started the sender or the
\* heartbeat, _send_trigger_message was called exactly once before either
\* was started; at most one initiation message goes out on a connection,
\* and whatever the connection carried first is that message.
C27_InitiationFirst ==
    \A c \in Conns :
        /\ (snd[c] # "none" \/ hb[c] # "none") => ws_h.trigger_attempts[c] = 1
        /\ ws_h.trigger_attempts[c] <= 1
        /\ ws_h.triggers_sent[c] <= ws_h.trigger_attempts[c]
        /\ ws_h.first_sent[c] \in {"none", "position"}
        /\ wire[c] # {} => ws_h.triggers_sent[c] = 1

\* After a reconnect the second connection carried its initiation message
\* and then messages of both periodic tasks.
C27_Witness ==
    /\ ws_h.triggers_sent[2] = 1
    /\ ws_h.first_sent[2] = "position"
    /\ wire[2] = {"position", "empty", "ping"}

\* C29: every message sent on a connection is a position object
\* {type, data: {x, y, z, timestamp}} or a heartbeat {type: "ping", timestamp}.
C29_DocumentedShapes ==
    \A c \in Conns : wire[c] \subseteq {"position", "ping"}

\* C28: an inbound object with numeric x, y and z, flat or under data, is
\* followed by one update_data call: one new observation, made the latest,
\* whose sys_time is the time of receipt, whose distance is hypot(x, y),
\* whose risk is the zone-linear risk of that distance, and which is valid.
C28_WellFormedWritten ==
    [][ws_h'.received # ws_h.received /\ ws_h'.last_schema_ok =>
         /\ Len(objs') = Len(objs) + 1
         /\ buf'.latest_data = Len(objs')
         /\ LET o == objs'[Len(objs')]
                pos == ws_h'.last_payload
            IN /\ o.sys_time = now
               /\ o.x = pos.x /\ o.y = pos.y /\ o.z = pos.z
               /\ o.distance * o.distance <= pos.x * pos.x + pos.y * pos.y
               /\ (o.distance + 1) * (o.distance + 1)
                     > pos.x * pos.x + pos.y * pos.y
               /\ o.risk_value = ZoneRisk(o.distance)
               /\ o.is_valid]_vars

\* A position on the border of the protect zone whose payload carries a
\* timestamp other than the time of receipt was written.
C28_Witness ==
    /\ ws_h.last_msg = "written"
    /\ ws_h.last_schema_ok
    /\ ws_h.last_payload.timestamp # NoTime
    /\ buf.latest_data # NoData
    /\ objs[buf.latest_data].sys_time # ws_h.last_payload.timestamp
    /\ objs[buf.latest_data].distance = PROTECT_ZONE
    /\ objs[buf.latest_data].risk_value = 70 * Milli

\* The queue contents of one complete run of a service of the given
\* duration: the time points 0..duration, then the sentinel.
FullRun(duration) ==
    [k \in 1..(duration + 2) |-> IF k <= duration + 1 THEN k - 1 ELSE Sentinel]

\* Only one loop thread was ever started.
SingleRun ==
    sim_pc[1] # "none" /\ \A t \in SimThreads \ {1} : sim_pc[t] = "none"

\* C30: with stop_service never called, a single run puts one observation
\* for each of 0, 1, ..., total_time in increasing order and then the
\* sentinel, and when its thread has ended is_running is false.
C30_RunToCompletion ==
    SingleRun =>
        /\ IsPrefix(sim_h.enqueued, FullRun(sim.total_time))
        /\ sim_pc[1] = "dead" =>
              /\ sim_h.enqueued = FullRun(sim.total_time)
              /\ ~sim.is_running

\* C32: after any sequence of start_client, stop_client and ticks,
\* 0 <= failed_count <= max_failed.
C32_CounterRange ==
    0 <= http.failed_count /\ http.failed_count <= max_failed

\* C38: a tick whose request fails leaves collected_data as it was;
\* collected_data holds the valid observations received, in the order of
\* their receipt, and never the invalid observation made up for a failure.
C38_FailedTickFrame ==
    [][/\ http_h'.streak = http_h.streak + 1 =>
             http'.collected_data = http.collected_data
       /\ http'.collected_data = http_h'.accepted
       /\ \A k \in 1..Len(http'.collected_data) :
             http'.collected_data[k].is_valid]_vars

\* A failed tick between two successful ones left the two observations
\* next to each other.
C38_Witness ==
    /\ Len(http.collected_data) = 2
    /\ http_h.last = "ok"
    /\ http_h.requests >= 3
    /\ http.collected_data[1].timestamp < http.collected_data[2].timestamp

\* C33: at most one simulation loop thread is alive at any time.
C33_SingleLoop ==
    Cardinality({t \in SimThreads : IsAlive(t)}) <= 1

\* C34: data_queue holds at most one sentinel, and nothing is behind it.
C34_SentinelTerminal ==
    \A k \in 1..Len(sim.data_queue) :
        sim.data_queue[k] = Sentinel => k = Len(sim.data_queue)

\* C37: right after an update_data call made at time now, collected_data is
\* the sequence of the observations written before whose sys_time is at
\* least now - DISPLAY_WINDOW, each once and in the order written, followed
\* by the observation just written.
C37_NothingLostInWindow ==
    [][Len(buf_h'.written) > Len(buf_h.written) =>
         buf'.collected_data =
             Append(SelectSeq(buf_h.written,
                              LAMBDA i : objs'[i].sys_time >= now - DISPLAY_WINDOW),
                    buf_h'.written[Len(buf_h'.written)])]_vars

\* The third update evicted the first observation, which had left the
\* window, and kept the second, stamped exactly at the cutoff.
C37_Witness ==
    /\ Len(buf_h.written) = 3
    /\ buf.collected_data = <<2, 3>>
    /\ objs[1].sys_time < buf.last_receive_time - DISPLAY_WINDOW
    /\ objs[2].sys_time = buf.last_receive_time - DISPLAY_WINDOW

\* C31: once the heartbeat loop and the sender loop have each slept, the
\* interval the heartbeat loop sleeps between two pings is shorter than the
\* interval the sender loop sleeps between two sends.
C31_HeartbeatShorter ==
    (ws_h.last_sleep.ping > 0 /\ ws_h.last_sleep.empty > 0)
        => ws_h.last_sleep.ping < ws_h.last_sleep.empty

\* A periodic loop thread has been started and has not ended.
LoopAlive(pc) == pc \notin {"none", "dead"}

\* C35: at any time at most one sender loop and at most one heartbeat loop
\* are alive: the loops started for one connection have ended before the
\* loops of the next connection are started.
C35_TasksUnique ==
    /\ Cardinality({c \in Conns : LoopAlive(snd[c])}) <= 1
    /\ Cardinality({c \in Conns : LoopAlive(hb[c])}) <= 1

\* C36: however many reconnects there were, the client thread has at most
\* the one start_client activation of the first connection on its stack:
\* each reconnect cycle brings it back to the control depth it started at.
C36_ConstantDepth == cl.depth <= 1

=============================================================================
